---- MODULE Spec2Model ----
(***************************************************************************)
(* Factory simulation: Job / Machine / ProductionLine / Factory and the    *)
(* time-stepped SimulationManager (src/models/*.py,                        *)
(* src/simulation/simulation_manager.py).                                  *)
(*                                                                         *)
(* Time is counted in tenths of a simulated minute (Minute = 10), and the   *)
(* speed factor in tenths.  A Job object is a record                       *)
(* of job_obj, addressed by its id; the collections (machine queues,       *)
(* current_job, Factory.jobs, Factory.completed_jobs) hold ids, so that a  *)
(* Job object referenced from two collections is visible as such.          *)
(***************************************************************************)
EXTENDS Integers, Sequences, FiniteSets, TLC

\* ------------------------------------------------------------------ bounds
\* Number of create_job calls explored.
MaxJobs == 2
\* SimulationManager.step is explored while current_time stays within MaxTime
\* minutes.
MaxTime == 4
\* SimulationConfig.buffer_capacity of the configured machine (default 50).
BufferCapacity == 1
\* deque(maxlen=100) of Machine.queue, scaled down.
QueueMaxLen == 3
\* Longest breakdown, in minutes, that _trigger_downtime draws.
MaxDowntime == 1
\* Number of SimulationManager.start calls explored.
MaxRuns == 1
\* Number of jobs handed to Machine.add_job directly (SpecQueue).
MaxQueueJobs == 3
\* Number of effective SimulationManager.step calls explored in one run.
MaxSteps == 6
\* SimulationManager.max_history (200), scaled down.
MaxHistory == 2
\* Number of SimulationManager.start calls explored in SpecManager.
MaxManagerRuns == 2
\* Longest ProductionLine.machines list built (SpecRegistry).
MaxLineLen == 2

\* --------------------------------------------------------------- constants
\* current_job = None
NoJob == 0
\* start_time / completion_time = None
NoTime == -1
\* machine.production_line unset (no attribute, or None)
NoLine == "none"
\* one simulated minute, in the unit of current_time (tenths of a minute)
Minute == 10
\* SimulationManager.speed_factor as set by __init__ (1.0), in tenths
InitialSpeed == 10
\* the limits of set_speed (0.1 and 10.0), in tenths
MinSpeed == 1
MaxSpeed == 100
\* the spacing of the statistics samples (0.5 minutes)
SampleInterval == 5
\* time.time(): the wall clock, far beyond any simulated time
WallClock == (1000 + MaxTime) * Minute

\* Factory.machines, in insertion order (dict order of iteration)
MachineOrder == <<"M1", "M2">>
Names == {MachineOrder[i] : i \in 1..Len(MachineOrder)}
\* a machine name that is not registered in the factory
UnknownName == "MX"
\* Machine.base_time / Machine.setup_time of the two machines
base_time == [m \in Names |-> IF m = "M1" THEN Minute ELSE 2 * Minute]
setup_time == [m \in Names |-> 0]
\* Machine.config: M1 was built without a SimulationConfig, M2 with one
HasConfig(m) == m = "M2"
\* the one ProductionLine a caller may build and register
LineId == "LINE-01"
LineOptions == {<<"M1", "M2">>}

\* inputs of create_job: (batch_size, required_machines, priority)
JobInputs ==
    { [batch_size |-> 5, required_machines |-> <<"M1">>, priority |-> 1],
      [batch_size |-> 5, required_machines |-> <<"M2", "M1">>, priority |-> 3],
      [batch_size |-> 5, required_machines |-> <<"M2">>, priority |-> 1],
      [batch_size |-> 0, required_machines |-> <<"M1">>, priority |-> 1],
      [batch_size |-> 5, required_machines |-> <<UnknownName>>, priority |-> 1] }
\* priorities of Job: 1 = Normal, 2 = High, 3 = Critical
Priorities == {1, 2, 3}
\* step(dt): the dt values explored
DtSet == {Minute}
\* outcome of the quality draws of _complete_job
Outcomes == {"good", "defect", "rework"}

VARIABLES
    machines,          \* Factory.machines: name -> Machine state
    production_lines,  \* Factory.production_lines: line_id -> ProductionLine.machines
    job_obj,           \* the Job objects created so far: id -> Job fields
    jobs,              \* Factory.jobs
    completed_jobs,    \* Factory.completed_jobs
    job_counter,       \* Factory.job_counter
    current_time,      \* SimulationManager.current_time
    step_count,        \* SimulationManager.step_count
    is_running,        \* SimulationManager.is_running
    is_paused,         \* SimulationManager.is_paused
    registry,          \* the Factory and its ProductionLine over Machine objects
                       \* with identity (SpecRegistry)
    wip_cache,         \* Factory._wip_cache and whether _last_wip_update is set
    metrics,           \* the wall clock, and the cache of get_utilization and
                       \* get_throughput of machine M1 (SpecCache)
    thread_running,    \* the UI's thread_running flag
    loops,             \* the stepping loop threads started so far
    speed_factor,      \* SimulationManager.speed_factor, in tenths
    last_record_time,  \* SimulationManager.last_record_time
    time_history,      \* SimulationManager.time_history
    throughput_history,   \* SimulationManager.throughput_history
    utilization_history,  \* SimulationManager.utilization_history
    wip_history,       \* SimulationManager.wip_history
    runs,              \* number of start() calls made so far
    call,              \* the last call made and what it returned
    e2e                \* progress of the end-to-end scenario of C3

\* the four history buffers
history == << time_history, throughput_history, utilization_history, wip_history >>

\* what the sampling of statistics reads and writes, and the speed
sampling == << speed_factor, last_record_time, history >>

\* the caches of the statistics
caches == << wip_cache, metrics >>

\* the UI's stepping threads
threads == << thread_running, loops >>

vars == << machines, production_lines, job_obj, jobs, completed_jobs, job_counter,
           current_time, step_count, is_running, is_paused, sampling, registry,
           caches, threads, runs, call, e2e >>

\* ----------------------------------------------------------------- helpers
Min(S) == CHOOSE x \in S : \A y \in S : x <= y

\* number of times x occurs in sequence s
Count(s, x) == Cardinality({i \in 1..Len(s) : s[i] = x})

\* x in list
Contains(s, x) == \E i \in 1..Len(s) : s[i] = x

\* list.remove(x): drop the first occurrence of x
ListRemove(s, x) ==
    IF ~Contains(s, x) THEN s
    ELSE LET i == Min({k \in 1..Len(s) : s[k] = x})
         IN SubSeq(s, 1, i - 1) \o SubSeq(s, i + 1, Len(s))

\* deque.insert(i, x) with a 0-based index i
ListInsert(s, i, x) == SubSeq(s, 1, i) \o <<x>> \o SubSeq(s, i + 1, Len(s))

\* The part of the program state the Factory operations read and write.
World(ms, pl, jo, js, cj) ==
    [machines |-> ms, production_lines |-> pl, job_obj |-> jo, jobs |-> js,
     completed_jobs |-> cj]

\* ------------------------------------------------------------------ Machine
\* Machine.__init__
NewMachine ==
    [ queue |-> <<>>, current_job |-> NoJob, is_working |-> FALSE, is_down |-> FALSE,
      work_start_time |-> 0, work_end_time |-> 0, downtime_start |-> 0,
      downtime_end |-> 0, total_working_time |-> 0, total_output |-> 0,
      total_defects |-> 0, total_downtime |-> 0, production_line |-> NoLine ]

\* Machine.calculate_cycle_time on a machine built with base and setup (setup
\* is a multiple of every batch size used, so the division is exact)
CycleTime(base, setup, batch_size) ==
    IF batch_size <= 0 THEN base
    ELSE base + (setup \div batch_size)

\* Machine.calculate_cycle_time of machine m
calculate_cycle_time(m, batch_size) == CycleTime(base_time[m], setup_time[m], batch_size)

\* the capacity test with its comparisons off by one (mutant of BufferFull)
BufferFullOffByOne(m, q) ==
    IF HasConfig(m) /\ Len(q) > BufferCapacity THEN TRUE
    ELSE Len(q) > QueueMaxLen

\* the capacity test of Machine.add_job
BufferFull(m, q) ==
    IF HasConfig(m) /\ Len(q) >= BufferCapacity THEN TRUE
    ELSE Len(q) >= QueueMaxLen

\* the priority test letting an equal priority pass (mutant of Outranks)
OutranksOrEqual(new_priority, existing_priority) == new_priority >= existing_priority

\* the priority test of Machine.add_job's scan
Outranks(new_priority, existing_priority) == new_priority > existing_priority

\* the insertion of Machine.add_job: before the first job of lower priority
PriorityInsert(q, j, jo) ==
    LET lower == {i \in 1..Len(q) : Outranks(jo[j].priority, jo[q[i]].priority)}
    IN IF lower = {} THEN Append(q, j)
       ELSE ListInsert(q, Min(lower) - 1, j)

\* Machine.add_job: the world after the call and the value returned
add_job(w, m, j) ==
    IF BufferFull(m, w.machines[m].queue)
    THEN [w |-> w, ret |-> FALSE]
    ELSE [w |-> [w EXCEPT !.machines[m].queue = PriorityInsert(@, j, w.job_obj)],
          ret |-> TRUE]

\* the guard of Machine.start_processing
CanStart(mc) == ~mc.is_working /\ Len(mc.queue) > 0

\* Machine.start_processing
start_processing(w, m, t) ==
    LET mc == w.machines[m]
        j == Head(mc.queue)
    IN IF CanStart(mc)
       THEN [w EXCEPT
               !.machines[m].queue = Tail(mc.queue),
               !.machines[m].current_job = j,
               !.job_obj[j].start_time = t,
               !.machines[m].work_start_time = t,
               !.machines[m].work_end_time =
                   t + calculate_cycle_time(m, w.job_obj[j].batch_size),
               !.machines[m].is_working = TRUE]
       ELSE w

\* Machine._trigger_downtime, the breakdown lasting d minutes
trigger_downtime(mc, t, d) ==
    [mc EXCEPT !.is_down = TRUE, !.downtime_start = t, !.downtime_end = t + d,
               !.is_working = FALSE]

\* an _end_downtime that clears the down state without accumulating the
\* elapsed downtime (mutant of end_downtime)
end_downtime_unaccounted(mc, t) ==
    [mc EXCEPT !.is_down = FALSE, !.downtime_start = 0, !.downtime_end = 0]

\* Machine._end_downtime
end_downtime(mc, t) ==
    [mc EXCEPT !.total_downtime = @ + (t - mc.downtime_start),
               !.is_down = FALSE, !.downtime_start = 0, !.downtime_end = 0]

\* Machine._complete_job, its quality draws giving outcome
complete_job(w, m, t, outcome) ==
    LET mc == w.machines[m]
        j == mc.current_job
        b == w.job_obj[j].batch_size
        defect == HasConfig(m) /\ outcome = "defect"
        rework == HasConfig(m) /\ outcome = "rework"
        done == IF rework THEN t + (calculate_cycle_time(m, b) \div 2) ELSE t
    IN [w EXCEPT
          !.job_obj[j].completion_time = done,
          !.job_obj[j].is_defective = defect,
          !.job_obj[j].needs_rework = rework,
          !.machines[m].total_working_time = @ + (mc.work_end_time - mc.work_start_time),
          !.machines[m].total_defects = IF defect THEN @ + b ELSE @,
          !.machines[m].total_output = IF defect THEN @ ELSE @ + b,
          !.machines[m].current_job = NoJob,
          !.machines[m].is_working = FALSE]

\* Machine.update: brk > 0 is a breakdown of brk minutes drawn in this call;
\* returns the world and the completed job (NoJob for None)
update(w, m, t, brk, outcome) ==
    LET m0 == w.machines[m]
        m1 == IF ~m0.is_down /\ HasConfig(m) /\ brk > 0
              THEN trigger_downtime(m0, t, brk * Minute) ELSE m0
        m2 == IF m1.is_down /\ t >= m1.downtime_end THEN end_downtime(m1, t) ELSE m1
        w2 == [w EXCEPT !.machines[m] = m2]
    IN IF m2.is_working /\ ~m2.is_down /\ t >= m2.work_end_time
       THEN [w |-> complete_job(w2, m, t, outcome), done |-> m2.current_job]
       ELSE [w |-> w2, done |-> NoJob]

\* the validity window of the metric cache, in tenths of a second
CacheDuration == 5
\* the wall clock when the program starts: past the first window, as time.time() is
WallStart == CacheDuration
\* the wall clock is followed for MaxWall tenths of a second
MaxWall == 8

\* Machine.__init__: the metric cache (computed_at notes the wall time at which
\* _cached_throughput was computed, NoTime for its initial 0), with the wall clock
NewMetrics ==
    [ wall |-> WallStart, cache_time |-> 0, cached_utilization |-> 0,
      cached_throughput |-> 0, computed_at |-> NoTime ]

\* total_output / total_time, in units per minute, rounded down
Throughput(mc, total_time) == (mc.total_output * Minute) \div total_time

\* Machine.get_utilization(total_time), computed afresh (the cache expired),
\* in whole percent
get_utilization(mc, total_time) ==
    IF total_time <= 0 THEN 0
    ELSE (mc.total_working_time * 100) \div total_time

\* Machine.get_utilization(total_time) with its cache c
cached_get_utilization(mc, c, total_time) ==
    IF c.wall - c.cache_time < CacheDuration
    THEN [cache |-> c, ret |-> c.cached_utilization]
    ELSE LET u == get_utilization(mc, total_time)
         IN [cache |-> [c EXCEPT !.cached_utilization = u, !.cache_time = c.wall],
             ret |-> u]

\* Machine.get_throughput(total_time) with its cache c; cached tells whether
\* the cached value was returned
cached_get_throughput(mc, c, total_time) ==
    IF c.wall - c.cache_time < CacheDuration
    THEN [cache |-> c, ret |-> c.cached_throughput, cached |-> TRUE]
    ELSE LET v == IF total_time <= 0 THEN 0 ELSE Throughput(mc, total_time)
         IN [cache |-> [c EXCEPT !.cached_throughput = v, !.computed_at = c.wall],
             ret |-> v, cached |-> FALSE]

\* ----------------------------------------------------------- ProductionLine
\* ProductionLine.simulate_flow on the line whose machines list is lm
simulate_flow(w, lm, j, t) ==
    LET s == w.job_obj[j].current_step
    IN IF Len(lm) = 0 \/ s >= Len(lm)
       THEN [w |-> w, ret |-> FALSE]
       ELSE LET cm == lm[s + 1]
                mc == w.machines[cm]
            IN IF ~mc.is_working /\ Len(mc.queue) = 0
               THEN [w |-> start_processing(add_job(w, cm, j).w, cm, t), ret |-> TRUE]
               ELSE add_job(w, cm, j)

\* max(...) over a non-empty set of numbers
MaxOf(S) == CHOOSE x \in S : \A y \in S : y <= x

\* ProductionLine.analyze_bottleneck on a line whose machines have the base
\* times bases and the queue lengths queues, with one route whose step cycle
\* times are cycles: the positions, in line order, of the machines returned
analyze_bottleneck(bases, queues, cycles) ==
    IF Len(bases) = 0 THEN <<>>
    ELSE LET max_cycle_time == MaxOf({0} \cup {cycles[i] : i \in 1..Len(cycles)})
             max_queue_length == MaxOf({queues[i] : i \in 1..Len(queues)})
             hit(i) == \/ 10 * bases[i] >= 9 * max_cycle_time
                       \/ 10 * queues[i] >= 8 * max_queue_length
         IN SelectSeq([i \in 1..Len(bases) |-> i], hit)

\* ------------------------------------------------------------------ Factory
\* Job(...) as built by Factory.create_job
NewJob(id, inp) ==
    [ id |-> id, batch_size |-> inp.batch_size, required_machines |-> inp.required_machines,
      priority |-> inp.priority, current_step |-> 0,
      start_time |-> NoTime, completion_time |-> NoTime,
      is_defective |-> FALSE, needs_rework |-> FALSE ]

\* Job.advance_step: whether the step index moves
CanAdvance(job) == job.current_step < Len(job.required_machines)

\* Factory.route_job
route_job(w, j) ==
    LET job == w.job_obj[j]
    IN IF job.current_step < Len(job.required_machines)
       THEN LET name == job.required_machines[job.current_step + 1]
            IN IF name \in DOMAIN w.machines
               THEN LET line == w.machines[name].production_line
                    IN IF line # NoLine /\ line \in DOMAIN w.production_lines
                       THEN simulate_flow(w, w.production_lines[line], j, WallClock)
                       ELSE add_job(w, name, j)
               ELSE [w |-> w, ret |-> FALSE]
       ELSE [w |-> w, ret |-> FALSE]

\* Factory.process_completed_job: the world after the call, and what the call did
process_completed_job(w, j) ==
    IF CanAdvance(w.job_obj[j])
    THEN LET w1 == [w EXCEPT !.job_obj[j].current_step = @ + 1]
             r == route_job(w1, j)
         IN [w |-> IF r.ret THEN r.w ELSE [r.w EXCEPT !.jobs = Append(@, j)],
             advanced |-> TRUE, routed |-> r.ret]
    ELSE [w |-> [w EXCEPT !.completed_jobs = Append(@, j),
                          !.jobs = ListRemove(@, j)],
          advanced |-> FALSE, routed |-> FALSE]

\* -------------------------------------------------------- SimulationManager
\* step, first loop: update every machine, collecting the completed jobs
RECURSIVE UpdateAll(_, _, _, _, _)
UpdateAll(w, order, t, brk, outcome) ==
    IF order = <<>> THEN [w |-> w, completed |-> <<>>]
    ELSE LET m == Head(order)
             r == update(w, m, t, IF HasConfig(m) THEN brk[m] ELSE 0,
                         IF HasConfig(m) THEN outcome[m] ELSE "good")
             rest == UpdateAll(r.w, Tail(order), t, brk, outcome)
         IN [w |-> rest.w,
             completed |-> IF r.done = NoJob THEN rest.completed
                           ELSE <<r.done>> \o rest.completed]

\* step, second loop: process_completed_job for each completed job; log keeps,
\* per call, the job, whether it had just completed its last machine, and
\* where the call left it
RECURSIVE ProcessAll(_, _)
ProcessAll(w, completed) ==
    IF completed = <<>> THEN [w |-> w, log |-> <<>>]
    ELSE LET j == Head(completed)
             job == w.job_obj[j]
             r == process_completed_job(w, j)
             rest == ProcessAll(r.w, Tail(completed))
             rec == [ job |-> j,
                      last |-> job.current_step = Len(job.required_machines) - 1,
                      steps_left |->
                          r.w.job_obj[j].current_step < Len(job.required_machines),
                      routed |-> r.routed,
                      to_completed |->
                          Count(r.w.completed_jobs, j) = Count(w.completed_jobs, j) + 1,
                      in_jobs |-> Contains(r.w.jobs, j) ]
         IN [w |-> rest.w, log |-> <<rec>> \o rest.log]

\* step, third loop: start_processing on every machine
RECURSIVE StartAll(_, _, _)
StartAll(w, order, t) ==
    IF order = <<>> THEN w
    ELSE StartAll(start_processing(w, Head(order), t), Tail(order), t)

\* step, fourth loop: route_job for each job of the copy of Factory.jobs,
\* collecting jobs_to_remove
RECURSIVE RouteBacklog(_, _)
RouteBacklog(w, pending) ==
    IF pending = <<>> THEN [w |-> w, jobs_to_remove |-> <<>>]
    ELSE LET r == route_job(w, Head(pending))
             rest == RouteBacklog(r.w, Tail(pending))
         IN [w |-> rest.w,
             jobs_to_remove |-> IF r.ret THEN <<Head(pending)>> \o rest.jobs_to_remove
                                ELSE rest.jobs_to_remove]

\* step, fifth loop: Factory.jobs.remove for each job of jobs_to_remove
RECURSIVE RemoveAll(_, _)
RemoveAll(js, gone) ==
    IF gone = <<>> THEN js
    ELSE RemoveAll(ListRemove(js, Head(gone)), Tail(gone))

\* the body of SimulationManager.step once it is known to be effective
StepWorld(w, t, brk, outcome) ==
    LET a == UpdateAll(w, MachineOrder, t, brk, outcome)
        b == ProcessAll(a.w, a.completed)
        c == StartAll(b.w, MachineOrder, t)
        d == RouteBacklog(c, c.jobs)
    IN [w |-> [d.w EXCEPT !.jobs = RemoveAll(@, d.jobs_to_remove)], log |-> b.log]

\* ----------------------------------------------- Factory registry of machines
\* The Machine objects that exist: objects 1 and 2 are the machines M1 and M2
\* of the factory, object 3 is another Machine built with the name M1, and
\* object 4 a Machine built with the name M3.
machine_name == <<"M1", "M2", "M1", "M3">>
MachineObjs == DOMAIN machine_name

\* The Factory as a registry: machines is Factory.machines (name -> object),
\* production_lines the line_ids of Factory.production_lines, line the
\* machines list of the ProductionLine object LINE-01, and production_line the
\* production_line attribute of each Machine object.
NewRegistry ==
    [ machines |-> [n \in Names |-> IF n = "M1" THEN 1 ELSE 2],
      production_lines |-> {},
      line |-> <<>>,
      production_line |-> [o \in MachineObjs |-> NoLine] ]

\* Factory.add_machine that binds the name without looking (mutant of
\* add_machine)
add_machine_overwrites(r, o) ==
    [r |-> [r EXCEPT !.machines =
                        [n \in DOMAIN r.machines \cup {machine_name[o]} |->
                            IF n = machine_name[o] THEN o ELSE r.machines[n]]],
     ret |-> TRUE]

\* Factory.add_machine(machine)
add_machine(r, o) ==
    IF machine_name[o] \in DOMAIN r.machines
    THEN [r |-> r, ret |-> FALSE]
    ELSE [r |-> [r EXCEPT !.machines = @ @@ (machine_name[o] :> o)], ret |-> TRUE]

\* Factory.remove_machine(machine_name)
remove_machine(r, name) ==
    IF name \in DOMAIN r.machines
    THEN [r |-> [r EXCEPT !.machines =
                             [n \in DOMAIN r.machines \ {name} |-> r.machines[n]]],
          ret |-> TRUE]
    ELSE [r |-> r, ret |-> FALSE]

\* ProductionLine.add_machine(machine) on the line LINE-01
line_add_machine(r, o) ==
    [r EXCEPT !.line = Append(@, o), !.production_line[o] = LineId]

\* Factory.add_production_line, its loop over the machines of the line
RECURSIVE AddLineMachines(_, _)
AddLineMachines(r, ms) ==
    IF ms = <<>> THEN r
    ELSE AddLineMachines(
             IF machine_name[Head(ms)] \notin DOMAIN r.machines
             THEN add_machine(r, Head(ms)).r ELSE r,
             Tail(ms))

\* Factory.add_production_line(production_line) for the line LINE-01
add_production_line(r) ==
    IF LineId \in r.production_lines
    THEN [r |-> r, ret |-> FALSE]
    ELSE [r |-> AddLineMachines([r EXCEPT !.production_lines = @ \cup {LineId}],
                                r.line),
          ret |-> TRUE]

\* ------------------------------------------------------------ Factory WIP
\* Factory._wip_cache and _last_wip_update after __init__: set is whether
\* _last_wip_update holds the wall-clock time of a computation (it is 0 after
\* __init__ and after _invalidate_cache)
NewWipCache == [value |-> 0, set |-> FALSE]

\* Factory._invalidate_cache
invalidate_cache(c) == [c EXCEPT !.set = FALSE]

\* the sum of Factory.get_total_wip over the machines in order
RECURSIVE MachinesWip(_, _)
MachinesWip(w, order) ==
    IF order = <<>> THEN 0
    ELSE Len(w.machines[Head(order)].queue)
         + (IF w.machines[Head(order)].is_working THEN 1 ELSE 0)
         + MachinesWip(w, Tail(order))

\* Factory.get_total_wip as it computes the value from the factory state
ComputeWip(w) == MachinesWip(w, MachineOrder) + Len(w.jobs)

\* Factory.get_total_wip: within says that the call comes less than 0.1 s of
\* wall-clock time after the computation that set _last_wip_update
get_total_wip(w, c, within) ==
    IF c.set /\ within
    THEN [cache |-> c, ret |-> c.value]
    ELSE [cache |-> [value |-> ComputeWip(w), set |-> TRUE], ret |-> ComputeWip(w)]

\* max(a, b) and min(a, b) of Python: the first argument unless the second
\* is larger (smaller)
PyMax(a, b) == IF b > a THEN b ELSE a
PyMin(a, b) == IF b < a THEN b ELSE a

\* the clamp without its lower limit (mutant of ClampSpeed)
ClampSpeedUpperOnly(factor) == PyMin(MaxSpeed, factor)

\* the clamp of SimulationManager.set_speed
ClampSpeed(factor) == PyMax(MinSpeed, PyMin(MaxSpeed, factor))

\* the advance of current_time by step(dt): dt * speed_factor
Advance(dt, speed) == (dt * speed) \div 10

\* a sample due at every step that does not go back in time (mutant of
\* SampleDue)
SampleDueAlways(t, last) == t - last >= 0

\* step: whether a statistics sample is due at time t
SampleDue(t, last) == t - last >= SampleInterval

\* an append that drops the new sample when the buffer is full (mutant of Push)
PushDropsNewest(h, x) ==
    IF Len(h) >= MaxHistory THEN h ELSE Append(h, x)

\* deque(maxlen=max_history).append
Push(h, x) ==
    IF Len(h) >= MaxHistory THEN Append(Tail(h), x) ELSE Append(h, x)

\* a value of one of the three statistics sampled at time t.  The statistics
\* are read through caches that expire by the wall clock
\* (Machine.get_utilization, Machine.get_throughput, Factory.get_total_wip);
\* a sample is kept as the time at which it was taken.
Sample(t) == [at |-> t]

\* SimulationManager.record_statistics at current_time = t
RecordStatistics(t) ==
    /\ time_history' = Push(time_history, t)
    /\ throughput_history' = Push(throughput_history, Sample(t))
    /\ utilization_history' = Push(utilization_history, Sample(t))
    /\ wip_history' = Push(wip_history, Sample(t))

\* SimulationManager.clear_history
ClearHistory ==
    /\ time_history' = <<>>
    /\ throughput_history' = <<>>
    /\ utilization_history' = <<>>
    /\ wip_history' = <<>>

\* Factory.clear_all_jobs
clear_all_jobs(w) ==
    [w EXCEPT !.jobs = <<>>,
              !.completed_jobs = <<>>,
              !.machines = [m \in DOMAIN w.machines |->
                                [w.machines[m] EXCEPT !.queue = <<>>,
                                                      !.current_job = NoJob,
                                                      !.is_working = FALSE]]]

\* Factory.reset_statistics
reset_statistics(w) ==
    [w EXCEPT !.machines = [m \in DOMAIN w.machines |->
                                [w.machines[m] EXCEPT !.total_working_time = 0,
                                                      !.total_output = 0]]]

\* ------------------------------------------------------------------- state
NoCall == [op |-> "none"]

Now == World(machines, production_lines, job_obj, jobs, completed_jobs)

Init ==
    /\ machines = [m \in Names |-> NewMachine]
    /\ production_lines = <<>>
    /\ job_obj = <<>>
    /\ jobs = <<>>
    /\ completed_jobs = <<>>
    /\ job_counter = 0
    /\ current_time = 0
    /\ step_count = 0
    /\ is_running = FALSE
    /\ is_paused = FALSE
    /\ speed_factor = InitialSpeed
    /\ last_record_time = 0
    /\ time_history = <<>>
    /\ throughput_history = <<>>
    /\ utilization_history = <<>>
    /\ wip_history = <<>>
    /\ registry = NewRegistry
    /\ wip_cache = NewWipCache
    /\ metrics = NewMetrics
    /\ thread_running = FALSE
    /\ loops = <<>>
    /\ runs = 0
    /\ call = NoCall
    /\ e2e = "fresh"

\* the world w becomes the state
Becomes(w) ==
    /\ machines' = w.machines
    /\ job_obj' = w.job_obj
    /\ jobs' = w.jobs
    /\ completed_jobs' = w.completed_jobs

\* ----------------------------------------------------------------- actions
\* Factory.create_job(batch_size, required_machines, priority)
CreateJob(inp) ==
    /\ job_counter < MaxJobs
    /\ job_counter' = job_counter + 1
    /\ job_obj' = Append(job_obj, NewJob(job_counter + 1, inp))
    /\ jobs' = Append(jobs, job_counter + 1)
    /\ call' = [op |-> "create_job", job |-> job_counter + 1]
    /\ e2e' = IF e2e = "fresh" /\ inp.batch_size = 5
                 /\ inp.required_machines = <<"M1">>
              THEN "created" ELSE "off"
    /\ UNCHANGED << runs, machines, production_lines, completed_jobs, current_time,
                    step_count, is_running, is_paused >>
    /\ UNCHANGED << sampling, registry, caches, threads >>

\* the job is on no machine yet: the caller of create_job still has it to route
Unrouted(j) ==
    /\ Contains(jobs, j)
    /\ job_obj[j].current_step = 0
    /\ \A m \in Names : machines[m].current_job # j /\ ~Contains(machines[m].queue, j)

\* Factory.route_job(job) called from outside on a job created and not yet routed
RouteJob(j) ==
    /\ Unrouted(j)
    /\ LET r == route_job(Now, j)
       IN /\ Becomes(r.w)
          /\ call' = [op |-> "route_job", job |-> j, ret |-> r.ret]
          /\ e2e' = IF e2e = "created" /\ r.ret THEN "routed" ELSE "off"
    /\ UNCHANGED << runs, production_lines, job_counter, current_time, step_count,
                    is_running, is_paused >>
    /\ UNCHANGED << sampling, registry, caches, threads >>

\* A ProductionLine is built over machines of the factory (ProductionLine.add_machine
\* for each) and registered with Factory.add_production_line
AddProductionLine(lm) ==
    /\ LineId \notin DOMAIN production_lines
    /\ production_lines' = (LineId :> lm)
    /\ machines' = [m \in Names |->
                      IF \E i \in 1..Len(lm) : lm[i] = m
                      THEN [machines[m] EXCEPT !.production_line = LineId]
                      ELSE machines[m]]
    /\ call' = NoCall
    /\ e2e' = "off"
    /\ UNCHANGED << runs, job_obj, jobs, completed_jobs, job_counter, current_time,
                    step_count, is_running, is_paused >>
    /\ UNCHANGED << sampling, registry, caches, threads >>

\* SimulationManager.start, the limit-th call at most
StartWithin(limit) ==
    /\ runs < limit
    /\ runs' = runs + 1
    /\ is_running' = TRUE
    /\ is_paused' = FALSE
    /\ current_time' = 0
    /\ step_count' = 0
    /\ ClearHistory
    /\ call' = NoCall
    /\ e2e' = IF e2e = "routed" THEN "running" ELSE "off"
    /\ UNCHANGED << machines, production_lines, job_obj, jobs, completed_jobs,
                    job_counter, speed_factor, last_record_time, registry, caches,
                    threads >>

\* SimulationManager.start
Start == StartWithin(MaxRuns)

\* a pause that toggles the flag (mutant of Pause)
PauseToggles ==
    /\ is_paused' = ~is_paused
    /\ call' = NoCall
    /\ e2e' = "off"
    /\ UNCHANGED << runs, machines, production_lines, job_obj, jobs, completed_jobs,
                    job_counter, current_time, step_count, is_running >>
    /\ UNCHANGED << sampling, registry, caches, threads >>

\* SimulationManager.pause
Pause ==
    /\ is_paused' = TRUE
    /\ call' = NoCall
    /\ e2e' = "off"
    /\ UNCHANGED << runs, machines, production_lines, job_obj, jobs, completed_jobs,
                    job_counter, current_time, step_count, is_running >>
    /\ UNCHANGED << sampling, registry, caches, threads >>

\* SimulationManager.resume
Resume ==
    /\ is_paused' = FALSE
    /\ call' = NoCall
    /\ e2e' = "off"
    /\ UNCHANGED << runs, machines, production_lines, job_obj, jobs, completed_jobs,
                    job_counter, current_time, step_count, is_running >>
    /\ UNCHANGED << sampling, registry, caches, threads >>

\* a stop that rewinds the clock (mutant of Stop)
StopRewinds ==
    /\ is_running' = FALSE
    /\ is_paused' = FALSE
    /\ current_time' = 0
    /\ call' = NoCall
    /\ e2e' = "off"
    /\ UNCHANGED << runs, machines, production_lines, job_obj, jobs, completed_jobs,
                    job_counter, step_count >>
    /\ UNCHANGED << sampling, registry, caches, threads >>

\* SimulationManager.stop
Stop ==
    /\ is_running' = FALSE
    /\ is_paused' = FALSE
    /\ call' = NoCall
    /\ e2e' = "off"
    /\ UNCHANGED << runs, machines, production_lines, job_obj, jobs, completed_jobs,
                    job_counter, current_time, step_count >>
    /\ UNCHANGED << sampling, registry, caches, threads >>

\* the test without its pause part (mutant of StepRefused)
StepRefusedWhenStopped == ~is_running

\* the test on which SimulationManager.step returns False at once
StepRefused == ~is_running \/ is_paused

\* SimulationManager.step(dt) while running and not paused
Step(dt) ==
    /\ ~StepRefused
    /\ step_count < MaxSteps
    /\ current_time + Advance(dt, speed_factor) <= MaxTime * Minute
    /\ \E brk \in [{m \in Names : HasConfig(m)} -> 0..MaxDowntime],
          outcome \in [{m \in Names : HasConfig(m)} -> Outcomes] :
          LET t == current_time + Advance(dt, speed_factor)
              r == StepWorld(Now, t, brk, outcome)
          IN /\ Becomes(r.w)
             /\ current_time' = t
             /\ step_count' = step_count + 1
             /\ IF SampleDue(t, last_record_time)
                THEN /\ RecordStatistics(t)
                     /\ last_record_time' = t
                     /\ UNCHANGED metrics
                     /\ \E within \in BOOLEAN :
                           wip_cache' = get_total_wip(r.w, wip_cache, within).cache
                ELSE UNCHANGED << history, last_record_time, caches >>
             /\ call' = [op |-> "step", dt |-> dt, pcj |-> r.log]
    /\ e2e' = IF e2e = "running" THEN "running" ELSE "off"
    /\ UNCHANGED << runs, production_lines, job_counter, is_running, is_paused,
                    speed_factor, registry, threads >>

\* SimulationManager.step(dt) while stopped or paused: returns False at once
StepIdle ==
    /\ StepRefused
    /\ call' = [op |-> "step_idle"]
    /\ UNCHANGED << runs, machines, production_lines, job_obj, jobs, completed_jobs,
                    job_counter, current_time, step_count, is_running, is_paused,
                    e2e >>
    /\ UNCHANGED << sampling, registry, caches, threads >>

Next ==
    \/ \E inp \in JobInputs : CreateJob(inp)
    \/ \E j \in 1..job_counter : RouteJob(j)
    \/ \E lm \in LineOptions : AddProductionLine(lm)
    \/ Start
    \/ Pause
    \/ Resume
    \/ Stop
    \/ \E dt \in DtSet : Step(dt)
    \/ StepIdle

Spec == Init /\ [][Next]_vars

\* -------------------------------------------------------------- SpecManager
\* The SimulationManager driven through its whole interface: start, pause,
\* resume, stop, reset, set_speed and step, at several speeds and with several
\* runs, over a factory that holds no job.

\* set_speed(factor): the factors explored, in tenths (0.0 and 20.0)
SpeedInputs == {0, 200}
\* step(dt): the dt values explored in SpecManager
ManagerDtSet == {0, Minute}

\* SimulationManager.set_speed(factor)
SetSpeed(factor) ==
    /\ speed_factor' = ClampSpeed(factor)
    /\ call' = NoCall
    /\ e2e' = "off"
    /\ UNCHANGED << runs, machines, production_lines, job_obj, jobs, completed_jobs,
                    job_counter, current_time, step_count, is_running, is_paused,
                    last_record_time, history, registry, caches, threads >>

\* SimulationManager.reset
Reset ==
    /\ is_running' = FALSE
    /\ is_paused' = FALSE
    /\ current_time' = 0
    /\ step_count' = 0
    /\ ClearHistory
    /\ Becomes(reset_statistics(clear_all_jobs(Now)))
    /\ UNCHANGED metrics
    /\ wip_cache' = invalidate_cache(wip_cache)
    /\ call' = NoCall
    /\ e2e' = "off"
    /\ UNCHANGED << runs, production_lines, job_counter, speed_factor,
                    last_record_time, registry, threads >>

\* SimulationManager.start in SpecManager
ManagerStart == StartWithin(MaxManagerRuns)

NextManager ==
    \/ ManagerStart
    \/ Pause
    \/ Resume
    \/ Stop
    \/ Reset
    \/ \E factor \in SpeedInputs : SetSpeed(factor)
    \/ \E dt \in ManagerDtSet : Step(dt)
    \/ StepIdle

SpecManager == Init /\ [][NextManager]_vars

\* ------------------------------------------------------------- SpecRegistry
\* The registry operations of the Factory: add_machine, remove_machine,
\* ProductionLine.add_machine and add_production_line, on Machine objects.

\* what the registry operations leave alone
flow == << machines, production_lines, job_obj, jobs, completed_jobs, job_counter,
           current_time, step_count, is_running, is_paused, sampling, threads,
           runs, e2e >>

\* factory.add_machine(o)
AddMachine(o) ==
    /\ LET r == add_machine(registry, o)
       IN /\ registry' = r.r
          /\ UNCHANGED metrics
          /\ wip_cache' = IF r.ret THEN invalidate_cache(wip_cache) ELSE wip_cache
          /\ call' = [op |-> "add_machine", obj |-> o, ret |-> r.ret]
    /\ UNCHANGED flow

\* factory.remove_machine(name)
RemoveMachine(name) ==
    /\ LET r == remove_machine(registry, name)
       IN /\ registry' = r.r
          /\ UNCHANGED metrics
          /\ wip_cache' = IF r.ret THEN invalidate_cache(wip_cache) ELSE wip_cache
          /\ call' = [op |-> "remove_machine", name |-> name, ret |-> r.ret]
    /\ UNCHANGED flow

\* line.add_machine(o) on the ProductionLine LINE-01
LineAddMachine(o) ==
    /\ Len(registry.line) < MaxLineLen
    /\ registry' = line_add_machine(registry, o)
    /\ call' = [op |-> "line_add_machine", obj |-> o]
    /\ UNCHANGED caches
    /\ UNCHANGED flow

\* factory.add_production_line(line) for the ProductionLine LINE-01
RegisterLine ==
    /\ LET r == add_production_line(registry)
       IN /\ registry' = r.r
          /\ UNCHANGED metrics
          /\ wip_cache' = IF r.ret THEN invalidate_cache(wip_cache) ELSE wip_cache
          /\ call' = [op |-> "add_production_line", ret |-> r.ret]
    /\ UNCHANGED flow

NextRegistry ==
    \/ \E o \in MachineObjs : AddMachine(o)
    \/ \E name \in Names \cup {"M3", UnknownName} : RemoveMachine(name)
    \/ \E o \in MachineObjs : LineAddMachine(o)
    \/ RegisterLine

SpecRegistry == Init /\ [][NextRegistry]_vars

\* ------------------------------------------------------------ SpecFunctions
\* The pure computations, called on inputs drawn from small sets.

\* everything but the record of the last call
state_but_call ==
    << machines, production_lines, job_obj, jobs, completed_jobs, job_counter,
       current_time, step_count, is_running, is_paused, sampling, registry,
       caches, threads, runs, e2e >>

\* Machine(base_time, setup_time) and batch sizes handed to calculate_cycle_time
BaseTimes == {Minute, 2 * Minute}
SetupTimes == {0, 5 * Minute, 10 * Minute}
BatchSizes == {-1, 0, 1, 5, 10}
\* lines of four machines: their base times and queue lengths
LineBaseTimes == [1..4 -> {Minute, 5 * Minute}]
LineQueues == [1..4 -> {0, 1}]

\* Machine(..., base, setup).calculate_cycle_time(batch_size)
CalculateCycleTime(base, setup, batch_size) ==
    /\ call' = [ op |-> "calculate_cycle_time", base |-> base, setup |-> setup,
                 batch_size |-> batch_size,
                 ret |-> CycleTime(base, setup, batch_size) ]
    /\ UNCHANGED state_but_call

\* line.analyze_bottleneck() on a line with a route over its machines whose
\* cycle times are the base times
AnalyzeBottleneck(bases, queues) ==
    /\ call' = [ op |-> "analyze_bottleneck", bases |-> bases, queues |-> queues,
                 ret |-> analyze_bottleneck(bases, queues, bases) ]
    /\ UNCHANGED state_but_call

NextFunctions ==
    \/ \E base \in BaseTimes, setup \in SetupTimes, batch_size \in BatchSizes :
          CalculateCycleTime(base, setup, batch_size)
    \/ \E bases \in LineBaseTimes, queues \in LineQueues :
          AnalyzeBottleneck(bases, queues)

SpecFunctions == Init /\ [][NextFunctions]_vars

\* ---------------------------------------------------------------- SpecQueue
\* The Machine used on its own: a caller creates a job and hands it to
\* Machine.add_job, and calls Machine.start_processing.

\* job = create_job(5, [m], p); machines[m].add_job(job)
MachineAddJob(m, p) ==
    /\ job_counter < MaxQueueJobs
    /\ LET j == job_counter + 1
           inp == [batch_size |-> 5, required_machines |-> <<m>>, priority |-> p]
           w == [Now EXCEPT !.job_obj = Append(@, NewJob(j, inp)), !.jobs = Append(@, j)]
           r == add_job(w, m, j)
       IN /\ Becomes(r.w)
          /\ job_counter' = j
          /\ call' = [op |-> "add_job", machine |-> m, job |-> j, ret |-> r.ret]
    /\ UNCHANGED << production_lines, current_time, step_count, is_running,
                    is_paused, runs, e2e >>
    /\ UNCHANGED << sampling, registry, caches, threads >>

\* machines[m].start_processing(current_time)
MachineStart(m) ==
    /\ Becomes(start_processing(Now, m, current_time))
    /\ call' = [op |-> "start_processing", machine |-> m]
    /\ UNCHANGED << production_lines, job_counter, current_time, step_count,
                    is_running, is_paused, runs, e2e >>
    /\ UNCHANGED << sampling, registry, caches, threads >>

NextQueue ==
    \/ \E m \in Names, p \in Priorities : MachineAddJob(m, p)
    \/ \E m \in Names : MachineStart(m)

SpecQueue == Init /\ [][NextQueue]_vars

\* -------------------------------------------------------------- SpecMachine
\* The Machine and the Factory called directly: add_job, start_processing and
\* update on a machine, clear_all_jobs and reset.

\* the time steps between two direct calls of update
UpdateDtSet == {Minute, 2 * Minute}
\* total_downtime, in minutes, above which update draws no further breakdown
MaxTotalDowntime == 0

\* machines[m].update(t) at t = current_time + dt; the call record keeps what
\* the machine was before the call and the job returned
MachineUpdate(m, dt, brk, outcome) ==
    /\ current_time + dt <= MaxTime * Minute
    /\ brk > 0 => machines[m].total_downtime <= MaxTotalDowntime * Minute
    /\ LET t == current_time + dt
           before == machines[m]
           r == update(Now, m, t, IF HasConfig(m) THEN brk ELSE 0,
                       IF HasConfig(m) THEN outcome ELSE "good")
       IN /\ Becomes(r.w)
          /\ current_time' = t
          /\ call' = [ op |-> "update", machine |-> m,
                       was_working |-> before.is_working,
                       was_down |-> before.is_down,
                       due |-> t >= before.work_end_time,
                       former |-> before.current_job,
                       outcome |-> IF HasConfig(m) THEN outcome ELSE "good",
                       ret |-> r.done ]
    /\ UNCHANGED << production_lines, job_counter, step_count, is_running,
                    is_paused, runs, e2e >>
    /\ UNCHANGED << sampling, registry, caches, threads >>

\* factory.get_total_wip()
GetTotalWip(within) ==
    /\ LET r == get_total_wip(Now, wip_cache, within)
       IN /\ wip_cache' = r.cache
          /\ call' = [op |-> "get_total_wip", ret |-> r.ret]
    /\ UNCHANGED metrics
    /\ UNCHANGED << machines, production_lines, job_obj, jobs, completed_jobs,
                    job_counter, current_time, step_count, is_running, is_paused,
                    sampling, registry, threads, runs, e2e >>

\* a clear_all_jobs that also rewinds job_counter (mutant of ClearAllJobs)
ClearAllJobsRewinds ==
    /\ Becomes(clear_all_jobs(Now))
    /\ job_counter' = 0
    /\ call' = [op |-> "clear_all_jobs"]
    /\ e2e' = "off"
    /\ UNCHANGED << production_lines, current_time, step_count, is_running,
                    is_paused, runs >>
    /\ UNCHANGED << sampling, registry, caches, threads >>

\* factory.clear_all_jobs()
ClearAllJobs ==
    /\ Becomes(clear_all_jobs(Now))
    /\ call' = [op |-> "clear_all_jobs"]
    /\ e2e' = "off"
    /\ UNCHANGED << production_lines, job_counter, current_time, step_count,
                    is_running, is_paused, runs >>
    /\ UNCHANGED << sampling, registry, caches, threads >>

NextMachine ==
    \/ \E m \in Names : job_counter < MaxJobs /\ MachineAddJob(m, 1)
    \/ \E m \in Names : MachineStart(m)
    \/ \E m \in Names, dt \in UpdateDtSet :
          \E brk \in IF HasConfig(m) THEN 0..MaxDowntime ELSE {0},
             outcome \in IF HasConfig(m) THEN Outcomes ELSE {"good"} :
             MachineUpdate(m, dt, brk, outcome)
    \/ ClearAllJobs
    \/ Reset

SpecMachine == Init /\ [][NextMachine]_vars

\* ------------------------------------------------------------------ SpecWip
\* get_total_wip called between direct calls that change the job state, and
\* between add_machine and remove_machine of a further machine.
NextWip ==
    \/ \E m \in Names : MachineAddJob(m, 1)
    \/ \E m \in Names : MachineStart(m)
    \/ AddMachine(4)
    \/ RemoveMachine("M3")
    \/ \E within \in BOOLEAN : GetTotalWip(within)

SpecWip == Init /\ [][NextWip]_vars

\* -------------------------------------------------------------- SpecThreads
\* The application (main.py): the UI thread runs the commands start, stop,
\* pause, resume, add job, clear all jobs and reset; each start spawns a thread
\* running simulation_loop, which calls SimulationManager.step while
\* thread_running is set. No lock is taken anywhere, so the commands of the UI
\* thread interleave with the loops, and with the five loops and the sampling
\* of a step, which are the steps of a stepping thread here. loops[i] is the
\* i-th thread spawned: pc is its position, completed and jobs_to_remove the
\* local lists of the step call it is in.

\* the threads that start_simulation may spawn
MaxLoops == 2
\* the step calls that take effect between two starts or resets
MaxLoopSteps == 2
\* the jobs that the add-job dialog creates
MaxDialogJobs == 1

\* the positions inside SimulationManager.step, in order, after its entry test
StepPhases == <<"update", "process", "start", "route", "remove", "sample">>

\* a thread just spawned: about to test thread_running
NewLoop == [pc |-> "check", completed |-> <<>>, jobs_to_remove |-> <<>>]

\* the thread is inside a step call that has passed the entry test
InStep(loop) == \E k \in DOMAIN StepPhases : StepPhases[k] = loop.pc

\* the position that follows phase pc: the next phase, or the loop test
After(pc) ==
    LET k == CHOOSE n \in DOMAIN StepPhases : StepPhases[n] = pc
    IN IF k < Len(StepPhases) THEN StepPhases[k + 1] ELSE "check"

\* no configured machine breaks down or spoils a job in the steps of the loops
NoBreak == [m \in {n \in Names : HasConfig(n)} |-> 0]
AllGood == [m \in {n \in Names : HasConfig(n)} |-> "good"]

\* the job the add-job dialog creates
DialogJob == [batch_size |-> 5, required_machines |-> <<"M1">>, priority |-> 1]

\* step, fifth loop run on the shared list: list.remove raises ValueError at
\* the first job that is not in Factory.jobs any more
RECURSIVE RemoveEach(_, _)
RemoveEach(js, gone) ==
    IF gone = <<>> THEN [jobs |-> js, raised |-> FALSE]
    ELSE IF ~Contains(js, Head(gone)) THEN [jobs |-> js, raised |-> TRUE]
    ELSE RemoveEach(ListRemove(js, Head(gone)), Tail(gone))

\* what the actions of a stepping thread leave alone
loop_frame == << production_lines, job_counter, is_running, is_paused, runs,
                speed_factor, registry, thread_running >>

\* start_simulation
UIStart ==
    /\ ~thread_running
    /\ runs < MaxLoops
    /\ thread_running' = TRUE
    /\ runs' = runs + 1
    /\ is_running' = TRUE
    /\ is_paused' = FALSE
    /\ current_time' = 0
    /\ step_count' = 0
    /\ ClearHistory
    /\ loops' = Append(loops, NewLoop)
    /\ call' = NoCall
    /\ e2e' = "off"
    /\ UNCHANGED << machines, production_lines, job_obj, jobs, completed_jobs,
                    job_counter, speed_factor, last_record_time, registry, caches >>

\* stop_simulation
UIStop ==
    /\ thread_running' = FALSE
    /\ is_running' = FALSE
    /\ is_paused' = FALSE
    /\ call' = NoCall
    /\ e2e' = "off"
    /\ UNCHANGED << runs, machines, production_lines, job_obj, jobs, completed_jobs,
                    job_counter, current_time, step_count, loops >>
    /\ UNCHANGED << sampling, registry, caches >>

\* the add-job dialog: create_job, then route_job on the job created
UICreateJob ==
    /\ job_counter < MaxDialogJobs
    /\ LET j == job_counter + 1
           w == [Now EXCEPT !.job_obj = Append(@, NewJob(j, DialogJob)),
                            !.jobs = Append(@, j)]
           r == route_job(w, j)
       IN /\ Becomes(r.w)
          /\ job_counter' = j
          /\ call' = [op |-> "create_job", job |-> j]
    /\ e2e' = "off"
    /\ UNCHANGED << runs, production_lines, current_time, step_count, is_running,
                    is_paused >>
    /\ UNCHANGED << sampling, registry, caches, threads >>

\* simulation_loop: the test of the while loop
LoopCheck(i) ==
    /\ loops[i].pc = "check"
    /\ loops' = [loops EXCEPT ![i].pc = IF thread_running THEN "enter" ELSE "done"]
    /\ call' = NoCall
    /\ e2e' = "off"
    /\ UNCHANGED << machines, production_lines, job_obj, jobs, completed_jobs,
                    job_counter, current_time, step_count, is_running, is_paused,
                    runs, thread_running >>
    /\ UNCHANGED << sampling, registry, caches >>

\* step: the entry test, and the clock and step count of an effective call
StepEnter(i, dt) ==
    /\ loops[i].pc = "enter"
    /\ IF StepRefused
       THEN /\ loops' = [loops EXCEPT ![i].pc = "check"]
            /\ call' = [op |-> "step", loop |-> i, ret |-> FALSE, raised |-> FALSE,
                         paused |-> is_paused]
            /\ UNCHANGED << current_time, step_count >>
       ELSE /\ step_count < MaxLoopSteps
            /\ current_time + Advance(dt, speed_factor) <= MaxTime * Minute
            /\ loops' = [loops EXCEPT ![i].pc = "update"]
            /\ current_time' = current_time + Advance(dt, speed_factor)
            /\ step_count' = step_count + 1
            /\ call' = NoCall
    /\ e2e' = "off"
    /\ UNCHANGED << machines, job_obj, jobs, completed_jobs, last_record_time,
                    history, caches >>
    /\ UNCHANGED loop_frame

\* step, first loop
StepUpdate(i) ==
    /\ loops[i].pc = "update"
    /\ LET a == UpdateAll(Now, MachineOrder, current_time, NoBreak, AllGood)
       IN /\ Becomes(a.w)
          /\ loops' = [loops EXCEPT ![i].pc = After("update"),
                                    ![i].completed = a.completed]
    /\ call' = NoCall
    /\ e2e' = "off"
    /\ UNCHANGED << current_time, step_count, last_record_time, history, caches >>
    /\ UNCHANGED loop_frame

\* step, second loop
StepProcess(i) ==
    /\ loops[i].pc = "process"
    /\ Becomes(ProcessAll(Now, loops[i].completed).w)
    /\ loops' = [loops EXCEPT ![i].pc = After("process"), ![i].completed = <<>>]
    /\ call' = NoCall
    /\ e2e' = "off"
    /\ UNCHANGED << current_time, step_count, last_record_time, history, caches >>
    /\ UNCHANGED loop_frame

\* a third loop that is given up when the manager is found paused (mutant of
\* StepStart)
StepStartUnlessPaused(i) ==
    /\ loops[i].pc = "start"
    /\ IF is_paused
       THEN /\ loops' = [loops EXCEPT ![i].pc = "check"]
            /\ UNCHANGED << machines, job_obj, jobs, completed_jobs >>
       ELSE /\ Becomes(StartAll(Now, MachineOrder, current_time))
            /\ loops' = [loops EXCEPT ![i].pc = After("start")]
    /\ call' = NoCall
    /\ e2e' = "off"
    /\ UNCHANGED << current_time, step_count, last_record_time, history, caches >>
    /\ UNCHANGED loop_frame

\* step, third loop
StepStart(i) ==
    /\ loops[i].pc = "start"
    /\ Becomes(StartAll(Now, MachineOrder, current_time))
    /\ loops' = [loops EXCEPT ![i].pc = After("start")]
    /\ call' = NoCall
    /\ e2e' = "off"
    /\ UNCHANGED << current_time, step_count, last_record_time, history, caches >>
    /\ UNCHANGED loop_frame

\* step, fourth loop, over a copy of Factory.jobs
StepRoute(i) ==
    /\ loops[i].pc = "route"
    /\ LET d == RouteBacklog(Now, jobs)
       IN /\ Becomes(d.w)
          /\ loops' = [loops EXCEPT ![i].pc = After("route"),
                                    ![i].jobs_to_remove = d.jobs_to_remove]
    /\ call' = NoCall
    /\ e2e' = "off"
    /\ UNCHANGED << current_time, step_count, last_record_time, history, caches >>
    /\ UNCHANGED loop_frame

\* step, fifth loop; an exception ends the thread, which catches nothing
StepRemove(i) ==
    /\ loops[i].pc = "remove"
    /\ LET r == RemoveEach(jobs, loops[i].jobs_to_remove)
       IN /\ jobs' = r.jobs
          /\ loops' = [loops EXCEPT ![i].pc = IF r.raised THEN "raised"
                                              ELSE After("remove"),
                                    ![i].jobs_to_remove = <<>>]
          /\ call' = IF r.raised
                     THEN [op |-> "step", loop |-> i, ret |-> FALSE, raised |-> TRUE,
                           paused |-> is_paused]
                     ELSE NoCall
    /\ e2e' = "off"
    /\ UNCHANGED << machines, job_obj, completed_jobs, current_time, step_count,
                    last_record_time, history, caches >>
    /\ UNCHANGED loop_frame

\* step: the sampling, and the return of True
StepSample(i) ==
    /\ loops[i].pc = "sample"
    /\ IF SampleDue(current_time, last_record_time)
       THEN /\ RecordStatistics(current_time)
            /\ last_record_time' = current_time
            /\ UNCHANGED metrics
            /\ \E within \in BOOLEAN :
                  wip_cache' = get_total_wip(Now, wip_cache, within).cache
       ELSE UNCHANGED << history, last_record_time, caches >>
    /\ loops' = [loops EXCEPT ![i].pc = After("sample")]
    /\ call' = [op |-> "step", loop |-> i, ret |-> TRUE, raised |-> FALSE,
                paused |-> is_paused]
    /\ e2e' = "off"
    /\ UNCHANGED << machines, job_obj, jobs, completed_jobs, current_time,
                    step_count >>
    /\ UNCHANGED loop_frame

NextThreads ==
    \/ UIStart
    \/ UIStop
    \/ Pause
    \/ Resume
    \/ UICreateJob
    \/ ClearAllJobs
    \/ Reset
    \/ \E i \in DOMAIN loops : LoopCheck(i)
    \/ \E i \in DOMAIN loops, dt \in DtSet : StepEnter(i, dt)
    \/ \E i \in DOMAIN loops : StepUpdate(i)
    \/ \E i \in DOMAIN loops : StepProcess(i)
    \/ \E i \in DOMAIN loops : StepStart(i)
    \/ \E i \in DOMAIN loops : StepRoute(i)
    \/ \E i \in DOMAIN loops : StepRemove(i)
    \/ \E i \in DOMAIN loops : StepSample(i)

SpecThreads == Init /\ [][NextThreads]_vars

\* ---------------------------------------------------------------- SpecCache
\* Machine M1 produces, the wall clock runs, and get_utilization and
\* get_throughput are called on M1 with total_time = current_time, as
\* record_statistics and the panels of the UI call them.

\* the steps of the wall clock between two calls, in tenths of a second
WallSteps == {1, CacheDuration}

\* wall-clock time passes
WallTick(d) ==
    /\ metrics.wall + d <= WallStart + MaxWall
    /\ metrics' = [metrics EXCEPT !.wall = @ + d]
    /\ call' = NoCall
    /\ UNCHANGED << machines, production_lines, job_obj, jobs, completed_jobs,
                    job_counter, current_time, step_count, is_running, is_paused,
                    sampling, registry, wip_cache, threads, runs, e2e >>

\* machines["M1"].get_utilization(current_time)
GetUtilization ==
    /\ LET r == cached_get_utilization(machines["M1"], metrics, current_time)
       IN /\ metrics' = r.cache
          /\ call' = [op |-> "get_utilization", ret |-> r.ret]
    /\ UNCHANGED << machines, production_lines, job_obj, jobs, completed_jobs,
                    job_counter, current_time, step_count, is_running, is_paused,
                    sampling, registry, wip_cache, threads, runs, e2e >>

\* machines["M1"].get_throughput(current_time)
GetThroughput ==
    /\ LET r == cached_get_throughput(machines["M1"], metrics, current_time)
       IN /\ metrics' = r.cache
          /\ call' = [op |-> "get_throughput", ret |-> r.ret, cached |-> r.cached,
                       wall |-> metrics.wall, computed_at |-> metrics.computed_at]
    /\ UNCHANGED << machines, production_lines, job_obj, jobs, completed_jobs,
                    job_counter, current_time, step_count, is_running, is_paused,
                    sampling, registry, wip_cache, threads, runs, e2e >>

NextCache ==
    \/ \E d \in WallSteps : WallTick(d)
    \/ GetUtilization
    \/ GetThroughput
    \/ job_counter < MaxJobs /\ MachineAddJob("M1", 1)
    \/ MachineStart("M1")
    \/ MachineUpdate("M1", Minute, 0, "good")

SpecCache == Init /\ [][NextCache]_vars

\* ----------------------------------------------------------------- SpecLive
\* A simulation that keeps stepping: jobs over registered machines are created
\* (and some routed by the caller) before the one start, and from then on step
\* is called again and again, which the weak fairness of LiveStep states. The
\* clock is followed up to MaxLiveTime minutes; a breakdown is drawn only
\* while its downtime and a whole cycle of the machine after it still fit
\* below that time, so that what is pending at the end is not the clock's doing.

\* the minutes of simulated time followed in SpecLive
MaxLiveTime == 10

\* the jobs created in SpecLive: one step, on a registered machine
LiveInputs ==
    { [batch_size |-> 5, required_machines |-> <<m>>, priority |-> 1] : m \in Names }

\* create_job before the run
LiveCreateJob(inp) == runs = 0 /\ CreateJob(inp)

\* route_job by the caller, before the run
LiveRouteJob(j) == runs = 0 /\ RouteJob(j)

\* the breakdowns that the updates of a step at time t may draw
LiveBreaks(t) ==
    { brk \in [{m \in Names : HasConfig(m)} -> 0..MaxDowntime] :
        \A m \in DOMAIN brk :
            brk[m] > 0 => t + brk[m] * Minute + base_time[m] <= MaxLiveTime * Minute }

\* SimulationManager.step(dt) while running and not paused, in SpecLive
LiveStep(dt) ==
    /\ ~StepRefused
    /\ current_time + Advance(dt, speed_factor) <= MaxLiveTime * Minute
    /\ LET t == current_time + Advance(dt, speed_factor)
       IN \E brk \in LiveBreaks(t),
             outcome \in [{m \in Names : HasConfig(m)} -> Outcomes] :
             LET r == StepWorld(Now, t, brk, outcome)
             IN /\ Becomes(r.w)
                /\ current_time' = t
                /\ step_count' = step_count + 1
                /\ IF SampleDue(t, last_record_time)
                   THEN /\ RecordStatistics(t)
                        /\ last_record_time' = t
                        /\ UNCHANGED metrics
                        /\ \E within \in BOOLEAN :
                              wip_cache' = get_total_wip(r.w, wip_cache, within).cache
                   ELSE UNCHANGED << history, last_record_time, caches >>
                /\ call' = [op |-> "step", dt |-> dt, pcj |-> r.log]
    /\ e2e' = "off"
    /\ UNCHANGED << runs, production_lines, job_counter, is_running, is_paused,
                    speed_factor, registry, threads >>

NextLive ==
    \/ \E inp \in LiveInputs : LiveCreateJob(inp)
    \/ \E j \in 1..job_counter : LiveRouteJob(j)
    \/ Start
    \/ \E dt \in DtSet : LiveStep(dt)

\* a step call takes effect: what LiveStep does to step_count, under the
\* conditions under which LiveStep can be taken
StepTakesEffect ==
    /\ ~StepRefused
    /\ \E dt \in DtSet : current_time + Advance(dt, speed_factor) <= MaxLiveTime * Minute
    /\ step_count' = step_count + 1

\* The loop keeps calling step: an effective step that stays possible is
\* eventually taken. (The steps that add 1 to step_count are those of LiveStep.)
SpecLive ==
    Init /\ [][NextLive]_vars /\ WF_step_count(StepTakesEffect)

\* ------------------------------------------- simulation_engine.py / models.py
\* The earlier variant of the program: simulation_engine.SimulationManager over
\* the Machine, Job and Factory of models.py.  Its machines have no
\* SimulationConfig, no breakdowns and no quality draws; of the Machine record
\* it uses queue, current_job, is_working, work_start_time, work_end_time,
\* total_working_time and total_output.

\* Number of models.Factory.create_job calls explored.
MaxEngineJobs == 3
\* deque(maxlen=100) of models.Machine.queue, scaled down.
EngineQueueMaxLen == 1
\* simulation_engine's step is explored while current_time stays within
\* MaxEngineTime minutes.
MaxEngineTime == 4

\* inputs of models.Factory.create_job
EngineJobInputs ==
    { [batch_size |-> 5, required_machines |-> <<"M2">>, priority |-> 1],
      [batch_size |-> 5, required_machines |-> <<"M1", "M2">>, priority |-> 1],
      [batch_size |-> 5, required_machines |-> <<"M1", UnknownName>>, priority |-> 1] }

\* models.Job as built by models.Factory.create_job
EngineNewJob(id, inp) ==
    [ id |-> id, batch_size |-> inp.batch_size, required_machines |-> inp.required_machines,
      priority |-> inp.priority, current_step |-> 0,
      start_time |-> NoTime, completion_time |-> NoTime ]

\* models.Machine.calculate_cycle_time
engine_cycle_time(m, batch_size) ==
    IF batch_size <= 0 THEN base_time[m] + setup_time[m]
    ELSE base_time[m] + (setup_time[m] \div batch_size)

\* models.Machine.add_job: the world after the call and the value returned
engine_add_job(w, m, j) ==
    IF Len(w.machines[m].queue) >= EngineQueueMaxLen
    THEN [w |-> w, ret |-> FALSE]
    ELSE [w |-> [w EXCEPT !.machines[m].queue = PriorityInsert(@, j, w.job_obj)],
          ret |-> TRUE]

\* models.Machine.start_processing
engine_start_processing(w, m, t) ==
    LET mc == w.machines[m]
        j == Head(mc.queue)
    IN IF ~mc.is_working /\ Len(mc.queue) > 0
       THEN [w EXCEPT
               !.machines[m].queue = Tail(mc.queue),
               !.machines[m].current_job = j,
               !.machines[m].is_working = TRUE,
               !.machines[m].work_start_time = t,
               !.machines[m].work_end_time =
                   t + engine_cycle_time(m, w.job_obj[j].batch_size),
               !.job_obj[j].start_time =
                   IF w.job_obj[j].start_time = NoTime THEN t ELSE @]
       ELSE w

\* models.Machine.update: the world after the call and the job returned
engine_update(w, m, t) ==
    LET mc == w.machines[m]
        j == mc.current_job
    IN IF mc.is_working /\ t >= mc.work_end_time
       THEN LET w1 == [w EXCEPT
                         !.job_obj[j].completion_time = t,
                         !.machines[m].total_working_time =
                             @ + (mc.work_end_time - mc.work_start_time),
                         !.machines[m].total_output = @ + w.job_obj[j].batch_size,
                         !.machines[m].current_job = NoJob,
                         !.machines[m].is_working = FALSE]
            IN [w |-> engine_start_processing(w1, m, t), done |-> j]
       ELSE [w |-> w, done |-> NoJob]

\* models.Factory.route_job
engine_route_job(w, j) ==
    LET job == w.job_obj[j]
    IN IF job.current_step < Len(job.required_machines)
       THEN LET name == job.required_machines[job.current_step + 1]
            IN IF name \in DOMAIN w.machines
               THEN engine_add_job(w, name, j)
               ELSE [w |-> w, ret |-> FALSE]
       ELSE [w |-> w, ret |-> FALSE]

\* models.Factory.get_total_wip as it computes the value
EngineComputeWip(w) == MachinesWip(w, MachineOrder)

\* models.Factory.get_total_wip: within says that the call comes less than
\* 0.1 s of wall-clock time after the computation that set _last_wip_update
engine_get_total_wip(w, c, within) ==
    IF c.set /\ within
    THEN [cache |-> c, ret |-> c.value]
    ELSE [cache |-> [value |-> EngineComputeWip(w), set |-> TRUE],
          ret |-> EngineComputeWip(w)]

\* step, first loop: update every machine, collecting the completed jobs
RECURSIVE EngineUpdateAll(_, _, _)
EngineUpdateAll(w, order, t) ==
    IF order = <<>> THEN [w |-> w, completed |-> <<>>]
    ELSE LET r == engine_update(w, Head(order), t)
             rest == EngineUpdateAll(r.w, Tail(order), t)
         IN [w |-> rest.w,
             completed |-> IF r.done = NoJob THEN rest.completed
                           ELSE <<r.done>> \o rest.completed]

\* step, second loop: each completed job moves to its next step and is routed,
\* the value of route_job being dropped, or is appended to completed_jobs.
\* routed and failed are the jobs route_job was called for, and those for
\* which it returned False.
RECURSIVE EngineProcessCompleted(_, _)
EngineProcessCompleted(w, completed) ==
    IF completed = <<>> THEN [w |-> w, routed |-> {}, failed |-> {}]
    ELSE LET j == Head(completed)
             w1 == [w EXCEPT !.job_obj[j].current_step = @ + 1]
         IN IF w1.job_obj[j].current_step < Len(w1.job_obj[j].required_machines)
            THEN LET r == engine_route_job(w1, j)
                     rest == EngineProcessCompleted(r.w, Tail(completed))
                 IN [w |-> rest.w, routed |-> {j} \cup rest.routed,
                     failed |-> (IF r.ret THEN {} ELSE {j}) \cup rest.failed]
            ELSE EngineProcessCompleted(
                     [w1 EXCEPT !.completed_jobs = Append(@, j)], Tail(completed))

\* step, third loop: start_processing on every machine
RECURSIVE EngineStartAll(_, _, _)
EngineStartAll(w, order, t) ==
    IF order = <<>> THEN w
    ELSE EngineStartAll(engine_start_processing(w, Head(order), t), Tail(order), t)

\* what step does to the factory at the new time t
EngineStepWorld(w, t) ==
    LET u == EngineUpdateAll(w, MachineOrder, t)
        p == EngineProcessCompleted(u.w, u.completed)
    IN [w |-> EngineStartAll(p.w, MachineOrder, t),
        routed |-> p.routed, failed |-> p.failed]

\* models.Factory.create_job(batch_size, required_machines, priority)
EngineCreateJob(inp) ==
    /\ job_counter < MaxEngineJobs
    /\ job_counter' = job_counter + 1
    /\ job_obj' = Append(job_obj, EngineNewJob(job_counter + 1, inp))
    /\ jobs' = Append(jobs, job_counter + 1)
    /\ call' = [op |-> "create_job", job |-> job_counter + 1]
    /\ e2e' = "off"
    /\ UNCHANGED << runs, machines, production_lines, completed_jobs, current_time,
                    step_count, is_running, is_paused >>
    /\ UNCHANGED << sampling, registry, caches, threads >>

\* models.Factory.route_job(job) called by the creator of the job
\* (add_sample_jobs) on a job it has just created
EngineRouteJob(j) ==
    /\ Unrouted(j)
    /\ call = [op |-> "create_job", job |-> j]
    /\ LET r == engine_route_job(Now, j)
       IN /\ Becomes(r.w)
          /\ call' = [op |-> "route_job", job |-> j, ret |-> r.ret]
    /\ e2e' = "off"
    /\ UNCHANGED << runs, production_lines, job_counter, current_time, step_count,
                    is_running, is_paused >>
    /\ UNCHANGED << sampling, registry, caches, threads >>

\* simulation_engine.SimulationManager.start
EngineStart ==
    /\ runs < MaxRuns
    /\ runs' = runs + 1
    /\ is_running' = TRUE
    /\ is_paused' = FALSE
    /\ current_time' = 0
    /\ step_count' = 0
    /\ call' = NoCall
    /\ e2e' = "off"
    /\ UNCHANGED << machines, production_lines, job_obj, jobs, completed_jobs,
                    job_counter, sampling, registry, caches, threads >>

\* simulation_engine.SimulationManager.step(dt) while running and not paused
EngineStep(dt) ==
    /\ is_running /\ ~is_paused
    /\ current_time + Advance(dt, speed_factor) <= MaxEngineTime * Minute
    /\ LET t == current_time + Advance(dt, speed_factor)
           r == EngineStepWorld(Now, t)
       IN /\ Becomes(r.w)
          /\ current_time' = t
          /\ step_count' = step_count + 1
          /\ IF t - last_record_time >= SampleInterval
             THEN /\ RecordStatistics(t)
                  /\ last_record_time' = t
                  /\ UNCHANGED metrics
                  /\ \E within \in BOOLEAN :
                        wip_cache' = engine_get_total_wip(r.w, wip_cache, within).cache
             ELSE UNCHANGED << history, last_record_time, caches >>
          /\ call' = [op |-> "engine_step", routed |-> r.routed, failed |-> r.failed]
    /\ e2e' = "off"
    /\ UNCHANGED << runs, production_lines, job_counter, is_running, is_paused,
                    speed_factor, registry, threads >>

NextEngine ==
    \/ \E inp \in EngineJobInputs : EngineCreateJob(inp)
    \/ \E j \in 1..job_counter : EngineRouteJob(j)
    \/ EngineStart
    \/ \E dt \in DtSet : EngineStep(dt)

SpecEngine == Init /\ [][NextEngine]_vars

\* ------------------------------------------------------------------ claims
JobIds == 1..job_counter

\* number of places that hold job j: machine queues, current_job slots,
\* Factory.jobs and Factory.completed_jobs
Occurrences(j) ==
    Count(machines["M1"].queue, j) + Count(machines["M2"].queue, j)
    + Cardinality({m \in Names : machines[m].current_job = j})
    + Count(jobs, j) + Count(completed_jobs, j)

\* the machine named at the current step of job record job ("" past the last step)
NextName(job) ==
    IF job.current_step < Len(job.required_machines)
    THEN job.required_machines[job.current_step + 1] ELSE ""

\* the queue capacity the specification gives machine m
Capacity(m) == IF HasConfig(m) THEN BufferCapacity ELSE QueueMaxLen

\* C1: every job created is in exactly one of the collections (one machine
\* queue, once; one current_job; Factory.jobs; Factory.completed_jobs).
C1_Conservation == \A j \in JobIds : Occurrences(j) = 1

\* C2: a process_completed_job call for a job that has just completed the last
\* machine of its required_machines appends it to completed_jobs and does not
\* leave it in Factory.jobs.
C2_LastStepCompletes ==
    call.op = "step" =>
        \A i \in 1..Len(call.pcj) :
            call.pcj[i].last => call.pcj[i].to_completed /\ ~call.pcj[i].in_jobs

\* C3: the end-to-end scenario (job of batch 5 for M1 created and routed, then
\* start() and steps of dt = 1): once a step has run, the job is in
\* completed_jobs with completion_time 1 and M1.total_output is 5.
C3_EndToEnd ==
    (e2e = "running" /\ step_count >= 1) =>
        /\ Contains(completed_jobs, 1)
        /\ job_obj[1].completion_time = Minute
        /\ machines["M1"].total_output = 5

StableOrder(q) ==
    \A i, k \in 1..Len(q) :
        i < k => \/ job_obj[q[i]].priority > job_obj[q[k]].priority
                 \/ /\ job_obj[q[i]].priority = job_obj[q[k]].priority
                    /\ q[i] < q[k]

\* C5, state part: every queue is in stable priority order; J1 (priority 1),
\* J2 (priority 3), J3 (priority 1) added to one empty queue stand as J2, J1, J3.
C5_Order ==
    /\ \A m \in Names : StableOrder(machines[m].queue)
    /\ \A m \in Names :
          ( /\ job_counter = 3
            /\ job_obj[1].priority = 1 /\ job_obj[2].priority = 3
            /\ job_obj[3].priority = 1
            /\ Len(machines[m].queue) = 3 )
          => machines[m].queue = <<2, 1, 3>>

\* C5, step part: start_processing takes the head of the queue, and add_job
\* leaves the job in service (current_job, is_working, work_end_time) alone.
C5_Calls ==
    /\ call'.op = "start_processing" =>
          LET m == call'.machine
          IN CanStart(machines[m]) =>
                /\ machines'[m].current_job = Head(machines[m].queue)
                /\ machines'[m].queue = Tail(machines[m].queue)
    /\ call'.op = "add_job" =>
          \A m \in Names :
              /\ machines'[m].current_job = machines[m].current_job
              /\ machines'[m].is_working = machines[m].is_working
              /\ machines'[m].work_end_time = machines[m].work_end_time

\* C5: stable priority insertion (checked under SpecQueue).
C5_StablePriority == []C5_Order /\ [][C5_Calls]_vars

\* C5 witness: J1, J2, J3 of priorities 1, 3, 1 were added and stand as J2, J1, J3.
C5_Witness ==
    /\ job_counter = 3
    /\ job_obj[1].priority = 1 /\ job_obj[2].priority = 3 /\ job_obj[3].priority = 1
    /\ machines["M1"].queue = <<2, 1, 3>>

\* C6, state part: no queue is longer than its capacity.
C6_WithinCapacity == \A m \in Names : Len(machines[m].queue) <= Capacity(m)

\* C6, step part: a route_job call changes no queue that is at capacity, and
\* returns False when the machine it hands the job to (the named machine, no
\* production line being involved) is at capacity.
C6_FullRefuses ==
    call'.op = "route_job" =>
        /\ \A m \in Names :
              Len(machines[m].queue) = Capacity(m) =>
                  machines'[m].queue = machines[m].queue
        /\ LET name == NextName(job_obj[call'.job])
           IN ( /\ name \in Names
                /\ machines[name].production_line = NoLine
                /\ Len(machines[name].queue) = Capacity(name) )
              => ~call'.ret

C7_NeverDownAndWorking ==
    \A m \in Names : ~(machines[m].is_down /\ machines[m].is_working)

\* C8: a route_job call that returns True has put the job on the machine named
\* at the job's current step (its queue or, started at once, its current_job)
\* and has touched no other machine.
C8_RoutesToNamed ==
    [][ (call'.op = "route_job" /\ call'.ret) =>
          LET j == call'.job
              name == NextName(job_obj[j])
          IN /\ name \in Names
             /\ \/ Count(machines'[name].queue, j) = Count(machines[name].queue, j) + 1
                \/ /\ machines'[name].current_job = j
                   /\ machines[name].current_job # j
             /\ \A m \in Names \ {name} : machines'[m] = machines[m] ]_vars

\* C9: route_job returns False and changes no queue, no current_job and
\* neither job list when the machine named at the job's current step is not
\* registered or has a full queue.
C9_RouteFailsCleanly ==
    [][ ( /\ call'.op = "route_job"
          /\ LET name == NextName(job_obj[call'.job])
             IN \/ name \notin Names
                \/ Len(machines[name].queue) >= Capacity(name) )
        => /\ ~call'.ret
           /\ machines' = machines
           /\ jobs' = jobs
           /\ completed_jobs' = completed_jobs ]_vars

\* a create_job input that the specification has rejected
Invalid(inp) ==
    \/ inp.batch_size <= 0
    \/ \E i \in 1..Len(inp.required_machines) : inp.required_machines[i] \notin Names

\* C10: create_job with an unregistered machine name or a batch_size <= 0
\* creates no job and leaves job_counter and Factory.jobs unchanged.
C10_CreateRejects ==
    [][ \A inp \in JobInputs :
          (CreateJob(inp) /\ Invalid(inp)) =>
              /\ job_counter' = job_counter
              /\ jobs' = jobs
              /\ job_obj' = job_obj ]_vars

\* the state of the SimulationManager apart from its two flags
clock_and_history == << current_time, step_count, last_record_time, history >>

\* the state of the Factory
factory_state == << machines, production_lines, job_obj, jobs, completed_jobs,
                   job_counter >>

\* C13: a step call made while the manager is not running or is paused changes
\* nothing: clock, step count, sample clock, history buffers, machines and job
\* lists all stay as they were.
C13_IdleStepNoOp ==
    [][ ( /\ call'.op \in {"step", "step_idle"}
          /\ (~is_running \/ is_paused) )
        => /\ UNCHANGED clock_and_history
           /\ UNCHANGED factory_state
           /\ UNCHANGED << is_running, is_paused, speed_factor >> ]_vars

\* C13 witness: a step was refused in a paused run that has samples.
C13_Witness ==
    /\ call.op = "step_idle"
    /\ is_running /\ is_paused
    /\ current_time > 0 /\ time_history # <<>>

\* C14: pause sets is_paused and leaves clock, step count and history alone;
\* pause on a manager that is already paused changes nothing at all.
C14_PauseIdempotent ==
    [][ Pause =>
          /\ is_paused'
          /\ UNCHANGED << current_time, step_count, history >>
          /\ is_paused =>
                /\ UNCHANGED clock_and_history
                /\ UNCHANGED factory_state
                /\ UNCHANGED << is_running, is_paused, speed_factor >> ]_vars

\* C14 witness: a paused run with time elapsed and samples taken.
C14_Witness ==
    /\ is_running /\ is_paused
    /\ call.op = "none"
    /\ step_count > 0 /\ Len(time_history) = MaxHistory

\* some history buffer goes from holding samples to empty
Emptied ==
    \/ time_history # <<>> /\ time_history' = <<>>
    \/ throughput_history # <<>> /\ throughput_history' = <<>>
    \/ utilization_history # <<>> /\ utilization_history' = <<>>
    \/ wip_history # <<>> /\ wip_history' = <<>>

C16_SpeedInRange == speed_factor >= 1 /\ speed_factor <= 100

\* C16, step part: an effective step(dt) adds exactly dt * speed_factor to
\* current_time and 1 to step_count; outside start and reset the clock never
\* goes back.
C16_ClockAdvance ==
    /\ call'.op = "step" =>
          /\ 10 * current_time' = 10 * current_time + call'.dt * speed_factor
          /\ step_count' = step_count + 1
    /\ ~(ManagerStart \/ Reset) => current_time' >= current_time

EvictsOldest(b, b2) ==
    Len(b) = MaxHistory =>
        /\ Len(b2) = MaxHistory
        /\ SubSeq(b2, 1, MaxHistory - 1) = Tail(b)

\* C17, state part: the four buffers have one length, at most max_history.
C17_SameLength ==
    /\ Len(time_history) <= MaxHistory
    /\ Len(throughput_history) = Len(time_history)
    /\ Len(utilization_history) = Len(time_history)
    /\ Len(wip_history) = Len(time_history)

\* C17, step part: a step at which a sample is due appends it, and on full
\* buffers evicts the oldest sample of each.
C17_Eviction ==
    ( /\ call'.op = "step"
      /\ current_time' - last_record_time >= SampleInterval )
    => /\ time_history' # <<>>
       /\ time_history'[Len(time_history')] = current_time'
       /\ EvictsOldest(time_history, time_history')
       /\ EvictsOldest(throughput_history, throughput_history')
       /\ EvictsOldest(utilization_history, utilization_history')
       /\ EvictsOldest(wip_history, wip_history')

\* C17: the history buffers as ring buffers of one length.
C17_RingBuffers == []C17_SameLength /\ [][C17_Eviction]_vars

\* C17 witness: in the first run the sample taken at the first minute has been
\* evicted from full buffers.
C17_Witness ==
    /\ call.op = "step" /\ runs = 1
    /\ Len(time_history) = MaxHistory
    /\ time_history[1] >= 2 * Minute

\* C18, state part: consecutive entries of time_history are at least 0.5
\* minutes apart (hence strictly increasing).
C18_Apart ==
    \A i \in 1..(Len(time_history) - 1) :
        time_history[i + 1] - time_history[i] >= SampleInterval

\* C18, step part: a step appends at most one sample, whose time is the
\* current_time of that step.
C18_AtMostOne ==
    call'.op = "step" =>
        \/ time_history' = time_history
        \/ /\ time_history' # <<>>
           /\ time_history'[Len(time_history')] = current_time'
           /\ LET front == SubSeq(time_history', 1, Len(time_history') - 1)
              IN front = time_history \/ front = Tail(time_history)

\* C18: sampling spacing.
C18_Spacing == []C18_Apart /\ [][C18_AtMostOne]_vars

\* C18 witness: two samples exactly 0.5 minutes apart.
C18_Witness ==
    /\ call.op = "step"
    /\ Len(time_history) = 2
    /\ time_history[2] - time_history[1] = SampleInterval

\* C19: sampling response.  In every run, an effective step whose
\* current_time is at least 0.5 minutes past the previous sample of the run
\* (the last entry of time_history, which start empties), or past the start of
\* the run when it has no sample yet, appends a sample.
C19_SamplingResponse ==
    [][ call'.op = "step" =>
          LET previous == IF time_history = <<>> THEN 0
                          ELSE time_history[Len(time_history)]
          IN current_time' - previous >= SampleInterval
             => /\ time_history' # <<>>
                /\ time_history'[Len(time_history')] = current_time'
                /\ time_history' # time_history ]_vars

\* C20: a freshly computed get_utilization(total_time) is between 0 and 100
\* for every machine and every total_time > 0.
C20_UtilizationBound ==
    \A m \in Names : \A total_time \in 1..(MaxTime * Minute) :
        /\ get_utilization(machines[m], total_time) >= 0
        /\ get_utilization(machines[m], total_time) <= 100

\* C11, state part: every registered machine is bound to its own name, so no
\* two registered machines share a name.
C11_UniqueNames ==
    /\ \A n \in DOMAIN registry.machines : machine_name[registry.machines[n]] = n
    /\ \A n1, n2 \in DOMAIN registry.machines :
          n1 # n2 =>
              machine_name[registry.machines[n1]] # machine_name[registry.machines[n2]]

\* C11, step part: add_machine with a name that is already registered returns
\* False and leaves the registry, hence the object bound to the name, unchanged.
C11_DuplicateRefused ==
    ( /\ call'.op = "add_machine"
      /\ machine_name[call'.obj] \in DOMAIN registry.machines )
    => /\ ~call'.ret
       /\ registry'.machines = registry.machines

\* C11: duplicate machine names are refused.
C11_DuplicateName == []C11_UniqueNames /\ [][C11_DuplicateRefused]_vars

\* C11 witness: the second Machine named M1 was refused while the first one
\* is registered.
C11_Witness ==
    /\ call.op = "add_machine" /\ call.obj = 3 /\ ~call.ret
    /\ "M1" \in DOMAIN registry.machines
    /\ registry.machines["M1"] = 1

\* C12: after remove_machine(name) has returned True, no registered
\* ProductionLine has the machine in its machines list and the machine's
\* production_line reference is cleared.
C12_RemoveDetaches ==
    [][ (call'.op = "remove_machine" /\ call'.ret) =>
          LET o == registry.machines[call'.name]
          IN /\ LineId \in registry'.production_lines => ~Contains(registry'.line, o)
             /\ registry'.production_line[o] = NoLine ]_vars

\* C21: calculate_cycle_time(batch_size) is base_time + setup_time / batch_size
\* for batch_size > 0 and base_time + setup_time for batch_size <= 0; with
\* base_time 2 and setup_time 10 it is 3 for batch_size 10 and 12 for 0.
C21_CycleTime ==
    call.op = "calculate_cycle_time" =>
        /\ call.batch_size > 0 =>
              call.batch_size * (call.ret - call.base) = call.setup
        /\ call.batch_size <= 0 => call.ret = call.base + call.setup
        /\ (call.base = 2 * Minute /\ call.setup = 10 * Minute) =>
              /\ call.batch_size = 10 => call.ret = 3 * Minute
              /\ call.batch_size = 0 => call.ret = 12 * Minute

\* C22: on a line with base times [1, 1, 5, 1], route cycle times equal to
\* them and all queues empty, analyze_bottleneck returns the machine of base
\* time 5 and no machine whose cycle time is below 90% of the maximum.
C22_Bottleneck ==
    ( /\ call.op = "analyze_bottleneck"
      /\ call.bases = <<Minute, Minute, 5 * Minute, Minute>>
      /\ call.queues = <<0, 0, 0, 0>> )
    => /\ Contains(call.ret, 3)
       /\ \A k \in 1..Len(call.ret) :
             10 * call.bases[call.ret[k]] >= 9 * (5 * Minute)

C24_IdsIncrease ==
    \A i, k \in DOMAIN job_obj : i < k => job_obj[i].id < job_obj[k].id

\* C24, step part: clear_all_jobs and reset leave job_counter alone, and a job
\* created gets an id above every id given before.
C24_FreshId ==
    /\ (ClearAllJobs \/ Reset) => job_counter' = job_counter
    /\ Len(job_obj') > Len(job_obj) =>
          \A i \in DOMAIN job_obj : job_obj[i].id < job_obj'[Len(job_obj')].id

\* C24: job ids are unique and increasing over the lifetime of the Factory.
C24_UniqueIds == []C24_IdsIncrease /\ [][C24_FreshId]_vars

\* C24 witness: job 2 was created after job 1 had been cleared.
C24_Witness ==
    /\ call.op = "add_job" /\ call.job = 2
    /\ jobs = <<2>>
    /\ job_obj[1].id = 1 /\ job_obj[2].id = 2

\* C28: start_processing sets a job's start_time only if it is unset, so the
\* start_time of a job, once set, never changes (stated for a job that is held
\* in one place only, which a job that is started once per step always is).
C28_StartTimeKept ==
    [][ \A j \in DOMAIN job_obj :
          (job_obj[j].start_time # NoTime /\ Occurrences(j) = 1) =>
              job_obj'[j].start_time = job_obj[j].start_time ]_vars

\* C29: update returns a job only if before the call the machine was working,
\* not down and past its work_end_time; the job is the former current_job,
\* and afterwards current_job is empty and is_working is false.
C29_UpdateReturns ==
    (call.op = "update" /\ call.ret # NoJob) =>
        /\ call.was_working /\ ~call.was_down /\ call.due
        /\ call.ret = call.former
        /\ machines[call.machine].current_job = NoJob
        /\ ~machines[call.machine].is_working

\* C30: a completion is defective, reworked or good, never defective and
\* reworked; a defective one adds batch_size to total_defects and nothing to
\* total_output, any other adds batch_size to total_output; a reset starts the
\* account again, so that total_output + total_defects is the sum of the batch
\* sizes completed since.
C30_QualityAccounting ==
    [][ /\ (call'.op = "update" /\ call'.ret # NoJob) =>
              LET m == call'.machine
                  job == job_obj'[call'.ret]
              IN /\ ~(job.is_defective /\ job.needs_rework)
                 /\ IF job.is_defective
                    THEN /\ machines'[m].total_defects
                              = machines[m].total_defects + job.batch_size
                         /\ machines'[m].total_output = machines[m].total_output
                    ELSE /\ machines'[m].total_output
                              = machines[m].total_output + job.batch_size
                         /\ machines'[m].total_defects = machines[m].total_defects
        /\ Reset =>
              \A m \in Names :
                  machines'[m].total_output + machines'[m].total_defects = 0 ]_vars

\* C25: at most one stepping loop is inside SimulationManager.step at any
\* time, whatever the order of the start and stop commands.
C25_OneSteppingLoop ==
    Cardinality({i \in DOMAIN loops : InStep(loops[i])}) <= 1

\* C26, step part: while a stepping thread is inside step, no command of the
\* UI thread changes the jobs, the queues or the machines.
C26_NoCommandInStep ==
    (\E i \in DOMAIN loops : InStep(loops[i]))
        => ~(UICreateJob \/ ClearAllJobs \/ Reset)

\* C26, state part: the backlog pass of step never fails to remove a job.
C26_RemoveSucceeds == \A i \in DOMAIN loops : loops[i].pc # "raised"

\* C26: the UI commands never interleave with the phases of a step, so the
\* backlog pass never tries to remove a job that is gone.
C26_StepExclusive == []C26_RemoveSucceeds /\ [][C26_NoCommandInStep]_vars

\* C27, first part: a thread inside step moves on to the next phase also when
\* the manager has been paused since the step began (the failing remove of the
\* backlog pass apart, which ends the thread, paused or not).
C27_RunsToEnd ==
    \A i \in DOMAIN loops :
        (InStep(loops[i]) /\ is_paused /\ loops'[i] # loops[i]) =>
            \/ loops'[i].pc = After(loops[i].pc)
            \/ loops[i].pc = "remove" /\ loops'[i].pc = "raised"

\* C27, second part: the step call that follows, made while paused, returns at
\* once and changes nothing.
C27_NextIsNoOp ==
    \A i \in DOMAIN loops :
        (loops[i].pc = "enter" /\ is_paused /\ loops'[i] # loops[i]) =>
            /\ loops'[i].pc = "check"
            /\ UNCHANGED << clock_and_history, factory_state >>

\* C27: a step is atomic with respect to pause: a pause made while step is
\* executing lets that step run all its phases, and the next step is a no-op.
C27_AtomicStep == [][C27_RunsToEnd /\ C27_NextIsNoOp]_vars

\* C27 witness: a step call returned True with the manager paused, so it was
\* paused after its entry test and ran to its end all the same.
C27_Witness ==
    /\ call.op = "step" /\ call.ret /\ call.paused
    /\ is_paused

\* C34: a job is processed once per required step, so no job is queued or in
\* service on a machine while its current_step equals len(required_machines).
C34_NoWorkPastLastStep ==
    \A j \in DOMAIN job_obj, m \in Names :
        (Contains(machines[m].queue, j) \/ machines[m].current_job = j) =>
            job_obj[j].current_step < Len(job_obj[j].required_machines)

\* C35: a machine is working if and only if its current_job is set.
C35_WorkingIffJob ==
    \A m \in Names : machines[m].is_working <=> machines[m].current_job # NoJob

\* C37: a freshly computed get_total_wip() is the number of jobs created and
\* not in completed_jobs, each unrouted, queued or in-service job counted once
\* (stated for the states in which every job is held in exactly one place).
C37_WipCountsJobs ==
    C1_Conservation =>
        ComputeWip(Now)
            = Cardinality({j \in JobIds : ~Contains(completed_jobs, j)})

\* C38: the lifecycle has the states Stopped, Running and Paused only:
\* is_paused implies is_running.
C38_PausedIsRunning == is_paused => is_running

\* C39: after SimulationManager.reset() the system is back in its initial
\* state over the same machines: clock, step count and sample clock are 0,
\* history buffers and job lists are empty, and every machine is idle, not
\* down, with an empty queue, no current_job and its totals at 0.
C39_ResetRestores ==
    [][ Reset =>
          /\ current_time' = 0 /\ step_count' = 0 /\ last_record_time' = 0
          /\ time_history' = <<>> /\ throughput_history' = <<>>
          /\ utilization_history' = <<>> /\ wip_history' = <<>>
          /\ jobs' = <<>> /\ completed_jobs' = <<>>
          /\ \A m \in Names :
                /\ ~machines'[m].is_working /\ ~machines'[m].is_down
                /\ machines'[m].queue = <<>>
                /\ machines'[m].current_job = NoJob
                /\ machines'[m].total_working_time = 0
                /\ machines'[m].total_output = 0
                /\ machines'[m].total_defects = 0
                /\ machines'[m].total_downtime = 0 ]_vars

\* C40: whenever get_throughput returns its cached value, that value was
\* computed by a get_throughput call made within the validity window before
\* (it is neither older than the window nor the initial 0).
C40_FreshThroughput ==
    (call.op = "get_throughput" /\ call.cached) =>
        /\ call.computed_at # NoTime
        /\ call.wall - call.computed_at < CacheDuration

\* C31, step part: a machine that is down comes up in the first step whose
\* time has reached downtime_end, and total_downtime grows by exactly
\* current_time - downtime_start in that step, and in no step before.
C31_DowntimeEnds ==
    \A m \in Names :
        (machines[m].is_down /\ step_count' = step_count + 1) =>
            IF current_time' >= machines[m].downtime_end
            THEN /\ ~machines'[m].is_down
                 /\ machines'[m].total_downtime
                      = machines[m].total_downtime
                        + (current_time' - machines[m].downtime_start)
            ELSE /\ machines'[m].is_down
                 /\ machines'[m].total_downtime = machines[m].total_downtime

\* C31, liveness part: while the simulation keeps stepping, a down machine is
\* eventually up again.
C31_EventuallyUp ==
    \A m \in Names : machines[m].is_down ~> ~machines[m].is_down

C33_EventualCompletion ==
    [](\A m \in Names : ~machines[m].is_down) =>
        \A j \in 1..MaxJobs :
            (j <= job_counter /\ is_running) ~> Contains(completed_jobs, j)

\* C36: a job in service when its machine breaks down (the machine is down
\* and holds the job, its work interrupted) is eventually completed by that
\* machine and handed to process_completed_job, which advances its step.
C36_InterruptedJobCompletes ==
    \A m \in Names, j \in 1..MaxJobs :
        (machines[m].is_down /\ ~machines[m].is_working /\ machines[m].current_job = j)
            ~> (j <= job_counter /\ job_obj[j].current_step > 0)

\* a completed job with steps left that no machine holds: its routing failed
Deferred(j) ==
    /\ job_obj[j].current_step > 0
    /\ job_obj[j].current_step < Len(job_obj[j].required_machines)
    /\ \A m \in Names : machines[m].current_job # j /\ ~Contains(machines[m].queue, j)

\* C32, held: a job whose route_job failed in the engine's step is, after the
\* step, still in a machine queue, a current_job or Factory.jobs.
C32_Held ==
    \A j \in JobIds :
        (call.op = "engine_step" /\ j \in call.failed) =>
            \/ Contains(jobs, j)
            \/ \E m \in Names : machines[m].current_job = j \/ Contains(machines[m].queue, j)

\* C32, retried: the engine's next step calls route_job again for every
\* deferred job.
C32_Retried ==
    \A j \in JobIds :
        (Deferred(j) /\ step_count' = step_count + 1) =>
            (call'.op = "engine_step" /\ j \in call'.routed)

\* C32: in the simulation_engine variant of step, a completed job with steps
\* left whose route_job fails (queue full, machine unknown) is not lost: it is
\* still held after the step and is retried on the next tick.
C32_DeferAndRetry == []C32_Held /\ [][C32_Retried]_vars

====
